---- MODULE Spec2Model ----
(***************************************************************************)
(* Model of streamlit_app.py: the five cached loaders (load_co2, load_o2,  *)
(* load_ch4, load_n2o, load_energy) with their synthetic fallback, and the *)
(* date-range mask followed by the grouped rolling mean of the gas view.   *)
(*                                                                         *)
(* Encodings.  A calendar date is the integer YYYYMMDD; a pandas Timestamp *)
(* is YYYYMMDDHH, so that .dt.date and .dt.year are real conversions.  A   *)
(* value is a rational [num, den], so that a rolling mean is exact.  The   *)
(* label "예시 데이터" is written SENTINEL.  numpy's generator is a state  *)
(* rng that every synthetic series advances.                               *)
(***************************************************************************)
EXTENDS Integers, Sequences, FiniteSets, TLC

VARIABLES clock, today, rng, net, cache, pc, last,
          gas_data, start, end, smooth, mask, sel

vars == <<clock, today, rng, net, cache, pc, last,
          gas_data, start, end, smooth, mask, sel>>

viewVars == <<gas_data, start, end, smooth, mask, sel>>

(***************************************************************************)
(* Bounds of the model.                                                    *)
(***************************************************************************)
\* the clock stops advancing here (seconds)
MaxClock == 3600
\* number of distinct states of the random generator
RngStates == 2
\* largest smoothing window the view is driven with (the slider allows 24)
MaxWindow == 3

(***************************************************************************)
(* Program constants.                                                      *)
(***************************************************************************)
ttl == 3600
EpochYear == 2000
DAY == 15
DefaultSmooth == 6

SENTINEL == "example data"

(***************************************************************************)
(* Calendar.                                                               *)
(***************************************************************************)
Date(y, m, d) == (y * 100 + m) * 100 + d

Timestamp(y, m, d) == Date(y, m, d) * 100

dt_date(ts) == ts \div 100

dt_year(ts) == ts \div 1000000

IsLeap(y) == (y % 4 = 0 /\ y % 100 # 0) \/ y % 400 = 0

DaysInMonth(y, m) ==
    IF m = 2 THEN (IF IsLeap(y) THEN 29 ELSE 28)
    ELSE IF m \in {4, 6, 9, 11} THEN 30 ELSE 31

\* pd.date_range(start, end, freq="M"): the month ends in [start, end],
\* start and end given as (year, month, day)
date_range_M(y0, m0, d0, y1, m1, d1) ==
    LET first == y0 * 12 + (m0 - 1)
        lastK == IF d1 = DaysInMonth(y1, m1) THEN y1 * 12 + (m1 - 1)
                 ELSE y1 * 12 + (m1 - 1) - 1
        MonthEnd(k) == Timestamp(k \div 12, (k % 12) + 1,
                                 DaysInMonth(k \div 12, (k % 12) + 1))
    IN  [i \in 1..(lastK - first + 1) |-> MonthEnd(first + i - 1)]

\* pd.date_range("2000", "2025", freq="Y"): the year ends in [y0-01-01, y1-01-01]
date_range_Y(y0, y1) ==
    [i \in 1..(y1 - y0) |-> Timestamp(y0 + i - 1, 12, 31)]

(***************************************************************************)
(* Values.                                                                 *)
(***************************************************************************)
Rat(n, d) == [num |-> n, den |-> d]

RatEq(a, b) == a.num * b.den = b.num * a.den

\* np.random.normal(0, sd, n)[i], as drawn from generator state s
Noise(s, i) == ((s + i) % 3) - 1

\* np.linspace(lo, hi, n)[i] + noise
linspace_noise(lo, hi, n, i, s) ==
    Rat(lo * (n - 1) + (hi - lo) * (i - 1) + Noise(s, i) * (n - 1), n - 1)

(***************************************************************************)
(* The five loaders and what the network can answer.                       *)
(***************************************************************************)
GasLoaders == {"load_co2", "load_o2", "load_ch4", "load_n2o"}

Loaders == GasLoaders \cup {"load_energy"}

GasSpec(fn) ==
    CASE fn = "load_co2" ->
           [url |-> "https://gml.noaa.gov/webdata/ccgg/trends/co2/co2_mm_mlo.csv",
            group |-> "CO2 (ppm)", lo |-> 370, hi |-> 420]
      [] fn = "load_o2" ->
           [url |-> "https://gml.noaa.gov/webdata/ccgg/trends/o2/o2_alt_surface-flask_allvalid.txt",
            group |-> "O2 (per meg)", lo |-> 0, hi |-> -300]
      [] fn = "load_ch4" ->
           [url |-> "https://gml.noaa.gov/webdata/ccgg/trends/ch4/ch4_mm_gl.txt",
            group |-> "CH4 (ppb)", lo |-> 1750, hi |-> 1950]
      [] fn = "load_n2o" ->
           [url |-> "https://gml.noaa.gov/webdata/ccgg/trends/n2o/n2o_mm_gl.txt",
            group |-> "N2O (ppb)", lo |-> 315, hi |-> 335]

base == "https://api.worldbank.org/v2/country/{code}/indicator/EG.USE.PCAP.KG.OE?format=json"

WorldName == "World energy use per capita"
KoreaName == "Korea energy use per capita"

\* one line of a gas file: numeric is FALSE when the year or month field is
\* not a number
GasRow(y, m, v) == [numeric |-> TRUE, year |-> y, month |-> m, value |-> v]
GasBadRow == [numeric |-> FALSE, year |-> 0, month |-> 0, value |-> 0]

\* one element of the World Bank array r[1]: null is a null value, numeric
\* is FALSE when the date string is no date, tz is TRUE when the date string
\* carries a UTC offset
EnergyRow(y, v) ==
    [numeric |-> TRUE, year |-> y, value |-> v, null |-> FALSE, tz |-> FALSE]
EnergyNullRow(y) ==
    [numeric |-> TRUE, year |-> y, value |-> 0, null |-> TRUE, tz |-> FALSE]
EnergyBadRow ==
    [numeric |-> FALSE, year |-> 0, value |-> 1, null |-> FALSE, tz |-> FALSE]
EnergyTzRow(y, v) ==
    [numeric |-> TRUE, year |-> y, value |-> v, null |-> FALSE, tz |-> TRUE]

Body(rows) == [parsable |-> TRUE, rows |-> rows]
Garbage == [parsable |-> FALSE, rows |-> <<>>]

HttpResponse(status, body) == [kind |-> "Response", status |-> status, body |-> body]
ConnectionError == [kind |-> "ConnectionError", status |-> 0, body |-> Garbage]
Timeout == [kind |-> "Timeout", status |-> 0, body |-> Garbage]

GasGoodBody ==
    Body(<<GasRow(1999, 12, 7), GasRow(2000, 1, 10),
           GasRow(2000, 2, 20), GasRow(2027, 5, 30)>>)
GasOneBadRowBody ==
    Body(<<GasRow(2000, 1, 10), GasBadRow, GasRow(2000, 2, 20)>>)

EnergyGoodBody ==
    Body(<<EnergyRow(2030, 40), EnergyNullRow(2023), EnergyRow(2022, 30),
           EnergyRow(1999, 5)>>)
EnergyOneBadRowBody ==
    Body(<<EnergyRow(2022, 30), EnergyBadRow, EnergyRow(2021, 20)>>)
EnergyTzBody ==
    Body(<<EnergyTzRow(2022, 30), EnergyTzRow(2021, 20)>>)

\* what the six addresses answer during one run of the script
Answers(co2, o2, ch4, n2o, wld, kor) ==
    [load_co2 |-> co2, load_o2 |-> o2, load_ch4 |-> ch4, load_n2o |-> n2o,
     WLD |-> wld, KOR |-> kor]

Uniform(gas, energy) == Answers(gas, gas, gas, gas, energy, energy)

Scenarios ==
    {Uniform(HttpResponse(200, GasGoodBody), HttpResponse(200, EnergyGoodBody)),
     Uniform(ConnectionError, ConnectionError),
     Uniform(Timeout, Timeout),
     Uniform(HttpResponse(200, Garbage), HttpResponse(200, Garbage)),
     Uniform(HttpResponse(200, GasOneBadRowBody),
             HttpResponse(200, EnergyOneBadRowBody)),
     Uniform(HttpResponse(500, GasGoodBody), HttpResponse(500, EnergyGoodBody)),
     Answers(HttpResponse(200, GasGoodBody), ConnectionError,
             HttpResponse(404, Garbage), HttpResponse(200, GasGoodBody),
             HttpResponse(200, EnergyGoodBody), Timeout),
     Answers(Timeout, HttpResponse(200, GasGoodBody),
             HttpResponse(200, GasGoodBody), ConnectionError,
             HttpResponse(200, EnergyTzBody), ConnectionError)}

Todays == {Date(2025, 9, 15), Date(2026, 11, 3)}

(***************************************************************************)
(* The body of a gas loader (lines 33-47, and its three copies).           *)
(***************************************************************************)
NoExc == "none"

\* what the try block raises on this response, NoExc when it runs through
GasTryExc(resp) ==
    IF resp.kind # "Response" THEN resp.kind                \* requests.get
    ELSE IF ~resp.body.parsable \/ resp.body.rows = <<>>
         THEN "ParserError"                                  \* pd.read_csv
    ELSE IF \E i \in 1..Len(resp.body.rows) :
               \/ ~resp.body.rows[i].numeric
               \/ resp.body.rows[i].month \notin 1..12
         THEN "ValueError"                                   \* pd.to_datetime
    ELSE NoExc

\* df[(df["date"].dt.date <= TODAY_LOCAL) & (df["date"].dt.year >= 2000)]
GasKeep(r, td) == dt_date(r.date) <= td /\ dt_year(r.date) >= EpochYear

\* the table the try block builds when nothing is raised
GasTryTable(fn, resp, td) ==
    LET rows == resp.body.rows
        df == [i \in 1..Len(rows) |->
                 [date |-> Timestamp(rows[i].year, rows[i].month, DAY),
                  value |-> Rat(rows[i].value, 1),
                  group |-> GasSpec(fn).group]]
        Keep(r) == GasKeep(r, td)
    IN  SelectSeq(df, Keep)

\* the except block: 300 month ends with a noisy ramp
SyntheticGas(fn, s) ==
    LET years == date_range_M(2000, 1, 1, 2025, 1, 1)
        n == Len(years)
    IN  [i \in 1..n |->
           [date |-> years[i],
            value |-> linspace_noise(GasSpec(fn).lo, GasSpec(fn).hi, n, i, s),
            group |-> GasSpec(fn).group]]

\* the bare "except:" of every loader catches whatever the try block raises
Catches(exc) == TRUE

Returned(df, label, synthetic, draws) ==
    [outcome |-> "returned", exc |-> NoExc, df |-> df, label |-> label,
     synthetic |-> synthetic, draws |-> draws]

Raised(exc) ==
    [outcome |-> "raised", exc |-> exc, df |-> <<>>, label |-> "",
     synthetic |-> <<>>, draws |-> 0]

\* the undecorated loader: synthetic[i] records which path made series i
load_gas(fn, resp, td, s) ==
    LET exc == GasTryExc(resp)
    IN  IF exc = NoExc
        THEN Returned(GasTryTable(fn, resp, td), GasSpec(fn).url, <<FALSE>>, 0)
        ELSE IF Catches(exc)
        THEN Returned(SyntheticGas(fn, s), SENTINEL, <<TRUE>>, 1)
        ELSE Raised(exc)

(***************************************************************************)
(* load_energy (lines 102-122).                                            *)
(***************************************************************************)
\* df.dropna()
dropna(rows) ==
    LET NotNull(r) == ~r.null
    IN  SelectSeq(rows, NotNull)

EnergyTryExc(resp) ==
    IF resp.kind # "Response" THEN resp.kind                \* requests.get
    ELSE IF ~resp.body.parsable THEN "JSONDecodeError"       \* .json()
    ELSE IF resp.body.rows = <<>> THEN "KeyError"            \* [["date","value"]]
    ELSE LET rows == dropna(resp.body.rows)
         IN  IF \/ \E i \in 1..Len(rows) : ~rows[i].numeric
                \/ \E i, j \in 1..Len(rows) : rows[i].tz # rows[j].tz
             THEN "ValueError"                               \* pd.to_datetime
             ELSE NoExc

EnergyTryTable(resp, name) ==
    LET rows == dropna(resp.body.rows)
    IN  [i \in 1..Len(rows) |->
           [date |-> Timestamp(rows[i].year, 1, 1),
            value |-> Rat(rows[i].value, 1),
            group |-> name,
            tz |-> rows[i].tz]]

SyntheticEnergy(name, s) ==
    LET years == date_range_Y(2000, 2025)
        n == Len(years)
    IN  [i \in 1..n |->
           [date |-> years[i],
            value |-> linspace_noise(2000, 2100, n, i, s),
            group |-> name,
            tz |-> FALSE]]

\* fetch_country: [raised, exc, df, synthetic]
fetch_country(resp, name, s) ==
    LET exc == EnergyTryExc(resp)
    IN  IF exc = NoExc
        THEN [exc |-> NoExc, df |-> EnergyTryTable(resp, name), synthetic |-> FALSE]
        ELSE IF Catches(exc)
        THEN [exc |-> NoExc, df |-> SyntheticEnergy(name, s), synthetic |-> TRUE]
        ELSE [exc |-> exc, df |-> <<>>, synthetic |-> FALSE]

\* the dtype of the date column of pd.concat([world, korea]): tz-aware and
\* tz-naive timestamps together give an object column, which has no .dt
HasDtAccessor(df) == \A i, j \in 1..Len(df) : df[i].tz = df[j].tz

EnergyKeep(r) == dt_year(r.date) >= EpochYear

load_energy(respW, respK, s) ==
    LET world == fetch_country(respW, WorldName, s)
        s1 == IF world.synthetic THEN (s + 1) % RngStates ELSE s
        korea == fetch_country(respK, KoreaName, s1)
        df == world.df \o korea.df
        draws == (IF world.synthetic THEN 1 ELSE 0)
                 + (IF korea.synthetic THEN 1 ELSE 0)
    IN  IF world.exc # NoExc THEN Raised(world.exc)
        ELSE IF korea.exc # NoExc THEN Raised(korea.exc)
        ELSE IF ~HasDtAccessor(df) THEN Raised("AttributeError")
        ELSE Returned(SelectSeq(df, EnergyKeep), base,
                      <<world.synthetic, korea.synthetic>>, draws)

(***************************************************************************)
(* @st.cache_data(ttl=3600): one entry per loader, none takes arguments.   *)
(***************************************************************************)
NoValue == [df |-> <<>>, label |-> "", synthetic |-> <<>>]

NoEntry == [set |-> FALSE, t |-> 0, value |-> NoValue]

Entry(t, r) ==
    [set |-> TRUE, t |-> t,
     value |-> [df |-> r.df, label |-> r.label, synthetic |-> r.synthetic]]

\* a plausible slip: the time-to-live taken in minutes
Fresh_minutes(entry, now) == entry.set /\ now < entry.t + 60

Fresh(entry, now) == entry.set /\ now < entry.t + ttl

NoCall ==
    [fn |-> "none", at |-> 0, hit |-> FALSE, responses |-> <<>>,
     prev |-> NoEntry, outcome |-> "none", value |-> NoValue]

CallRecord(fn, at, hit, responses, prev, outcome, value) ==
    [fn |-> fn, at |-> at, hit |-> hit, responses |-> responses,
     prev |-> prev, outcome |-> outcome, value |-> value]

\* the order of the loader calls in the script (lines 128-131, 153)
NextPc(fn) ==
    CASE fn = "load_co2" -> "load_o2"
      [] fn = "load_o2" -> "load_ch4"
      [] fn = "load_ch4" -> "load_n2o"
      [] fn = "load_n2o" -> "load_energy"
      [] fn = "load_energy" -> "done"

\* a call of a decorated loader that ran the function body and got r
Computed(fn, responses, r) ==
    /\ last' = CallRecord(fn, clock, FALSE, responses, cache[fn], r.outcome,
                          [df |-> r.df, label |-> r.label, synthetic |-> r.synthetic])
    /\ rng' = (rng + r.draws) % RngStates
    /\ IF r.outcome = "returned"
       THEN cache' = [cache EXCEPT ![fn] = Entry(clock, r)] /\ pc' = NextPc(fn)
       ELSE cache' = cache /\ pc' = "done"

\* a call answered from the cache
CacheHit(fn) ==
    /\ last' = CallRecord(fn, clock, TRUE, <<>>, cache[fn], "returned", cache[fn].value)
    /\ pc' = NextPc(fn)
    /\ UNCHANGED <<cache, rng>>

CallGas(fn) ==
    /\ pc = fn
    /\ IF Fresh(cache[fn], clock)
       THEN CacheHit(fn)
       ELSE Computed(fn, <<net[fn]>>, load_gas(fn, net[fn], today, rng))
    /\ UNCHANGED <<clock, today, net>>
    /\ UNCHANGED viewVars

CallEnergy ==
    /\ pc = "load_energy"
    /\ IF Fresh(cache["load_energy"], clock)
       THEN CacheHit("load_energy")
       ELSE Computed("load_energy", <<net.WLD, net.KOR>>,
                     load_energy(net.WLD, net.KOR, rng))
    /\ UNCHANGED <<clock, today, net>>
    /\ UNCHANGED viewVars

\* time passes, between two calls or two runs of the script, and the
\* network changes with it
TickSteps == {ttl - 1, ttl}

Tick ==
    /\ pc \in Loaders \cup {"done"}
    /\ \E d \in TickSteps : clock + d <= MaxClock /\ clock' = clock + d
    /\ net' \in Scenarios
    /\ UNCHANGED <<today, rng, cache, pc, last>>
    /\ UNCHANGED viewVars

\* Streamlit runs the script again from its first line
Rerun ==
    /\ pc = "done"
    /\ pc' = "load_co2"
    /\ UNCHANGED <<clock, today, rng, net, cache, last>>
    /\ UNCHANGED viewVars

Init ==
    /\ clock = 0
    /\ today \in Todays
    /\ rng \in 0..(RngStates - 1)
    /\ net \in Scenarios
    /\ cache = [fn \in Loaders |-> NoEntry]
    /\ pc = "load_co2"
    /\ last = NoCall
    /\ gas_data = <<>>
    /\ start = 0
    /\ end = 0
    /\ smooth = 0
    /\ mask = <<>>
    /\ sel = <<>>

Next ==
    \/ \E fn \in GasLoaders : CallGas(fn)
    \/ CallEnergy
    \/ Tick
    \/ Rerun

Spec == Init /\ [][Next]_vars

(***************************************************************************)
(* The gas view (lines 132-144): concatenation, sidebar, mask, smoothing.  *)
(***************************************************************************)
\* gas files the view is exercised on
ViewBodies ==
    {Body(<<GasRow(2000, 1, 10), GasRow(2000, 2, 20)>>),
     Body(<<GasRow(2000, 2, 20), GasRow(2000, 1, 10), GasRow(2000, 3, 60)>>),
     Body(<<GasRow(1999, 12, 7), GasRow(2000, 1, 4), GasRow(2000, 2, 8),
            GasRow(2000, 3, 30)>>)}

\* dates the two date inputs are set to
WidgetDates ==
    {Date(2000, 1, 1), Date(2000, 1, 15), Date(2000, 2, 15), Date(2100, 1, 1)}

\* pd.concat([co2, o2, ch4, n2o]) over what the four loaders returned
concat_gas(c) ==
    c["load_co2"].value.df \o c["load_o2"].value.df
      \o c["load_ch4"].value.df \o c["load_n2o"].value.df

\* a plausible slip: the end date excluded
Mask_exclusive_end(df, s, e) ==
    [i \in 1..Len(df) |-> dt_date(df[i].date) >= s /\ dt_date(df[i].date) < e]

\* (gas_data["date"].dt.date >= start) & (gas_data["date"].dt.date <= end)
Mask(df, s, e) ==
    [i \in 1..Len(df) |-> dt_date(df[i].date) >= s /\ dt_date(df[i].date) <= e]

\* df[m] for a boolean series m: the rows where m holds, in their order
BooleanIndex(df, m) ==
    LET Picked(i) == m[i]
        idx == SelectSeq([i \in 1..Len(df) |-> i], Picked)
    IN  [k \in 1..Len(idx) |-> df[idx[k]]]

RatAdd(a, b) == Rat(a.num * b.den + b.num * a.den, a.den * b.den)

RECURSIVE RatSum(_, _, _)
\* vals[lo] + ... + vals[hi]
RatSum(vals, lo, hi) ==
    IF lo > hi THEN Rat(0, 1)
    ELSE RatAdd(RatSum(vals, lo, hi - 1), vals[hi])

\* s.rolling(w, 1).mean(): the mean of the last w values up to each position,
\* of fewer at the start of the series
rolling_mean(vals, w) ==
    [i \in 1..Len(vals) |->
       LET lo == IF i - w + 1 < 1 THEN 1 ELSE i - w + 1
           sum == RatSum(vals, lo, i)
       IN  Rat(sum.num, sum.den * (i - lo + 1))]

\* a plausible slip: the rolling mean taken over the whole column
transform_ungrouped(df, w) ==
    LET rolled == rolling_mean([i \in 1..Len(df) |-> df[i].value], w)
    IN  [i \in 1..Len(df) |-> [df[i] EXCEPT !.value = rolled[i]]]

\* sel.groupby("group")["value"].transform(lambda s: s.rolling(w, 1).mean()):
\* each group's values, in row order, rolled on their own
groupby_transform(df, w) ==
    [i \in 1..Len(df) |->
       LET InGroup(j) == df[j].group = df[i].group
           members == SelectSeq([j \in 1..Len(df) |-> j], InGroup)
           rank == Cardinality({j \in 1..i : InGroup(j)})
           rolled == rolling_mean([k \in 1..Len(members) |-> df[members[k]].value], w)
       IN  [df[i] EXCEPT !.value = rolled[rank]]]

\* a plausible slip: "smooth or 6", which takes 0 for unset
Smoothed_falsy_default(df, w) ==
    groupby_transform(df, IF w = 0 THEN DefaultSmooth ELSE w)

\* if smooth > 0: sel["value"] = ...
Smoothed(df, w) == IF w > 0 THEN groupby_transform(df, w) ELSE df

Concat ==
    /\ pc = "concat"
    /\ gas_data' = concat_gas(cache)
    /\ pc' = "sidebar"
    /\ UNCHANGED <<clock, today, rng, net, cache, last, start, end, smooth, mask, sel>>

Sidebar ==
    /\ pc = "sidebar"
    /\ start' \in WidgetDates
    /\ end' \in WidgetDates
    /\ smooth' \in 0..MaxWindow
    /\ pc' = "mask"
    /\ UNCHANGED <<clock, today, rng, net, cache, last, gas_data, mask, sel>>

MaskSel ==
    /\ pc = "mask"
    /\ mask' = Mask(gas_data, start, end)
    /\ sel' = BooleanIndex(gas_data, mask')
    /\ pc' = "smooth"
    /\ UNCHANGED <<clock, today, rng, net, cache, last, gas_data, start, end, smooth>>

SmoothSel ==
    /\ pc = "smooth"
    /\ sel' = Smoothed(sel, smooth)
    /\ pc' = "chart"
    /\ UNCHANGED <<clock, today, rng, net, cache, last, gas_data, start, end, smooth, mask>>

\* the script has called the four gas loaders, each answered with a gas file
InitView ==
    /\ clock = 0
    /\ today \in Todays
    /\ rng = 0
    /\ \E b \in [GasLoaders -> ViewBodies] :
         /\ net = [load_co2 |-> HttpResponse(200, b["load_co2"]),
                   load_o2 |-> HttpResponse(200, b["load_o2"]),
                   load_ch4 |-> HttpResponse(200, b["load_ch4"]),
                   load_n2o |-> HttpResponse(200, b["load_n2o"]),
                   WLD |-> ConnectionError, KOR |-> ConnectionError]
         /\ cache = [fn \in Loaders |->
                       IF fn \in GasLoaders
                       THEN Entry(0, load_gas(fn, HttpResponse(200, b[fn]), today, 0))
                       ELSE NoEntry]
         /\ last = CallRecord("load_n2o", 0, FALSE,
                              <<HttpResponse(200, b["load_n2o"])>>, NoEntry, "returned",
                              Entry(0, load_gas("load_n2o", HttpResponse(200, b["load_n2o"]),
                                                today, 0)).value)
    /\ pc = "concat"
    /\ gas_data = <<>>
    /\ start = 0
    /\ end = 0
    /\ smooth = 0
    /\ mask = <<>>
    /\ sel = <<>>

NextView ==
    \/ Concat
    \/ Sidebar
    \/ MaskSel
    \/ SmoothSel

SpecView == InitView /\ [][NextView]_vars

(***************************************************************************)
(* Properties of the loaders, checked under Spec.  last is the record of   *)
(* the most recent loader call: when it was made, whether the cache        *)
(* answered it, the responses its requests got, the cache entry it found,  *)
(* and what it returned.                                                   *)
(***************************************************************************)
Called == last.fn # "none"

\* series i of the last call came from a request that got response r
SeriesOf(i) == last.responses[i]

\* C1: whatever the network answers, a loader call ends by returning a
\* (table, label) pair; no exception reaches the caller.
C1_NeverRaises == Called => last.outcome = "returned"

\* C2: for each series a loader returns, the label returned with it is the
\* sentinel exactly when the series was made by the synthetic fallback.
C2_SentinelIffSynthetic ==
    (Called /\ last.outcome = "returned") =>
        \A i \in 1..Len(last.value.synthetic) :
            (last.value.label = SENTINEL) <=> last.value.synthetic[i]

\* C3: every record of a returned table, real or synthetic, is dated within
\* [2000-01-01, today].
C3_DatesWithinEpochAndToday ==
    (Called /\ last.outcome = "returned") =>
        \A i \in 1..Len(last.value.df) :
            /\ Date(2000, 1, 1) <= dt_date(last.value.df[i].date)
            /\ dt_date(last.value.df[i].date) <= today

\* C4: a call made less than 3600 seconds after the call that filled the
\* cache issues no request and returns what that call returned, synthetic
\* or not; a call that issues a request again comes 3600 seconds or more
\* after it; and a call that ran the loader leaves its own result, stamped
\* with its own time, in the cache.
C4_CachedWithinTheHour ==
    Called =>
        /\ (last.prev.set /\ last.at < last.prev.t + 3600) =>
              /\ last.hit
              /\ last.responses = <<>>
              /\ last.outcome = "returned"
              /\ last.value = last.prev.value
        /\ (last.prev.set /\ last.responses # <<>>) => last.at >= last.prev.t + 3600
        /\ (~last.hit /\ last.outcome = "returned") =>
              cache[last.fn] = [set |-> TRUE, t |-> last.at, value |-> last.value]

\* a call 3599 seconds after the filling call, answered with the cached
\* synthetic series although the generator has moved on since
C4_Witness ==
    /\ Called
    /\ last.hit
    /\ last.at = last.prev.t + 3599
    /\ last.value.label = SENTINEL
    /\ last.value.synthetic = <<TRUE>>
    /\ last.fn = "load_co2"
    /\ last.value.df # SyntheticGas("load_co2", rng)

\* the body holds exactly one line that cannot be parsed
OneBadRow(body) ==
    /\ body.parsable
    /\ Cardinality({k \in 1..Len(body.rows) : ~body.rows[k].numeric}) = 1

WithoutBadRows(body) ==
    LET Good(r) == r.numeric
    IN  Body(SelectSeq(body.rows, Good))

\* C9: when one row of an otherwise valid payload cannot be parsed, the
\* loader drops the row and returns the remaining real records under the
\* real address, without falling back to the synthetic series.
C9_BadRowDropped ==
    (Called /\ ~last.hit) =>
        \A i \in 1..Len(last.responses) :
            (SeriesOf(i).kind = "Response" /\ OneBadRow(SeriesOf(i).body)) =>
                /\ last.outcome = "returned"
                /\ ~last.value.synthetic[i]
                /\ last.fn \in GasLoaders =>
                      /\ last.value.label = GasSpec(last.fn).url
                      /\ last.value.df =
                           GasTryTable(last.fn,
                                       HttpResponse(200, WithoutBadRows(SeriesOf(i).body)),
                                       today)

\* C10: a response with a status outside 2xx is a fetch failure whatever its
\* body: the loader returns the synthetic series and the sentinel label.
C10_Non2xxIsFailure ==
    (Called /\ ~last.hit) =>
        \A i \in 1..Len(last.responses) :
            (SeriesOf(i).kind = "Response" /\ SeriesOf(i).status \notin 200..299) =>
                /\ last.outcome = "returned"
                /\ last.value.synthetic[i]
                /\ last.value.label = SENTINEL

(***************************************************************************)
(* Properties of the gas view, checked under SpecView.                     *)
(***************************************************************************)
\* the rows of gas_data dated within [start, end], by position
InRange == {i \in 1..Len(gas_data) :
              start <= dt_date(gas_data[i].date) /\ dt_date(gas_data[i].date) <= end}

\* t holds exactly the rows of gas_data that are in range, in their order
IsSelection(t) ==
    /\ Len(t) = Cardinality(InRange)
    /\ \A i \in InRange : t[Cardinality({j \in InRange : j <= i})] = gas_data[i]

\* C5: the selection holds exactly the records dated within [start, end],
\* both ends included, in their original order; it is empty when
\* start > end or when no record lies in the range.
C5_SelectionIsInclusiveRange ==
    pc = "smooth" =>
        /\ IsSelection(sel)
        /\ (start > end => sel = <<>>)
        /\ (start = Date(2100, 1, 1) => sel = <<>>)

\* a selection that keeps the rows dated start and end themselves and loses
\* the rows after end
C5_Witness ==
    /\ pc = "smooth"
    /\ start < end
    /\ Len(sel) < Len(gas_data)
    /\ \E i \in 1..Len(sel) : dt_date(sel[i].date) = start
    /\ \E i \in 1..Len(sel) : dt_date(sel[i].date) = end
    /\ \E i \in 1..Len(gas_data) : dt_date(gas_data[i].date) > end

OfGroup(t, g) ==
    LET Is(r) == r.group = g
    IN  SelectSeq(t, Is)

Groups(t) == {t[i].group : i \in 1..Len(t)}

\* positions of the records of t that come, in date order within their
\* group, at or before record i (ties in row order), nearest w of them
DateWindow(t, i, w) ==
    LET Before(j) == /\ t[j].group = t[i].group
                     /\ \/ t[j].date < t[i].date
                        \/ (t[j].date = t[i].date /\ j <= i)
        upTo == {j \in 1..Len(t) : Before(j)}
        Later(j) == {k \in upTo : \/ t[k].date > t[j].date
                                  \/ (t[k].date = t[j].date /\ k > j)}
    IN  {j \in upTo : Cardinality(Later(j)) < w}

RECURSIVE SumOver(_, _)
SumOver(t, S) ==
    IF S = {} THEN Rat(0, 1)
    ELSE LET j == CHOOSE x \in S : TRUE
         IN  RatAdd(SumOver(t, S \ {j}), t[j].value)

\* C6: with window > 0 each record's value becomes the mean of its own
\* original value and those of up to window - 1 records that precede it in
\* ascending date order within its group, whatever the row order.
C6_MeanInDateOrder ==
    (pc = "chart" /\ smooth > 0) =>
        LET orig == BooleanIndex(gas_data, mask)
        IN  /\ Len(sel) = Len(orig)
            /\ \A i \in 1..Len(sel) :
                  LET W == DateWindow(orig, i, smooth)
                      sum == SumOver(orig, W)
                  IN  RatEq(sel[i].value, Rat(sum.num, sum.den * Cardinality(W)))

\* C7: the smoothed records of a group are what smoothing that group's
\* records alone, with the same window, gives.
C7_GroupsNeverMix ==
    (pc = "chart" /\ smooth > 0) =>
        LET orig == BooleanIndex(gas_data, mask)
        IN  \A g \in Groups(orig) \cup Groups(sel) :
                OfGroup(sel, g) = Smoothed(OfGroup(orig, g), smooth)

\* two groups of two or more records each, overlapping in date, smoothed
\* with a window of 2 or more
C7_Witness ==
    /\ pc = "chart"
    /\ smooth >= 2
    /\ \E g, h \in Groups(sel) :
          /\ g # h
          /\ Len(OfGroup(sel, g)) >= 2
          /\ Len(OfGroup(sel, h)) >= 2
          /\ \E i, j, k \in 1..Len(sel) :
                /\ sel[i].group = g /\ sel[k].group = g /\ sel[j].group = h
                /\ sel[i].date < sel[j].date /\ sel[j].date < sel[k].date
    /\ \E i \in 1..Len(sel) : sel[i].value # gas_data[i].value

\* C8: with window 0 the smoothed view is the date-range selection itself:
\* the same records, in the same order, with their values.
C8_ZeroWindowIsFilterOnly ==
    (pc = "chart" /\ smooth = 0) => IsSelection(sel)

C8_Witness ==
    /\ pc = "chart"
    /\ smooth = 0
    /\ Len(sel) >= 4
    /\ Len(sel) < Len(gas_data)

====
